---- MODULE Spec2Model ----
\* sPAPR capability handling (hw/ppc/spapr_caps.c): the per-machine capability
\* sets (default, effective, migration), the property setters, the default
\* computation, activation against the backend and the migration check.
\* Two machines are modelled so that a migration stream saved by one can be
\* loaded and checked by the other.
EXTENDS Integers, Sequences, FiniteSets, TLC

----------------------------------------------------------------------------
\* Bounds of the model

\* successful property writes (capability setters and max-cpu-compat) in one
\* behaviour
MaxSets == 2
\* successful property writes where activation is explored as well
MaxSetsAll == 1
\* largest page shift handed to the page size accessors and predicates
MaxShift == 25
\* largest level handed to the apply functions
MaxLevel == 3

----------------------------------------------------------------------------
\* Capability indices, in capability_table order

SPAPR_CAP_HTM == 0
SPAPR_CAP_VSX == 1
SPAPR_CAP_DFP == 2
SPAPR_CAP_CFPC == 3
SPAPR_CAP_SBBC == 4
SPAPR_CAP_IBS == 5
SPAPR_CAP_HPT_MAXPAGESIZE == 6
SPAPR_CAP_NESTED_KVM_HV == 7
SPAPR_CAP_NUM == 8

Caps == 0 .. (SPAPR_CAP_NUM - 1)

\* Levels
SPAPR_CAP_OFF == 0
SPAPR_CAP_ON == 1
SPAPR_CAP_BROKEN == 0
SPAPR_CAP_WORKAROUND == 1

EINVAL == 22

\* the two machines; each can save a stream and load the other's
Machines == {"A", "B"}
Other(m) == IF m = "A" THEN "B" ELSE "A"

None == "none"

\* no stream in flight
NoStream == [src |-> None, fields |-> <<>>]

----------------------------------------------------------------------------
\* Strings are sequences of characters, so that strcmp and strcasecmp compare
\* what the C functions compare.

UpperChars == <<"A","B","C","D","E","F","G","H","I","J","K","L","M",
                "N","O","P","Q","R","S","T","U","V","W","X","Y","Z">>
LowerChars == <<"a","b","c","d","e","f","g","h","i","j","k","l","m",
                "n","o","p","q","r","s","t","u","v","w","x","y","z">>

\* tolower, as a table over the characters that occur
Chars == {UpperChars[k] : k \in 1..26} \cup {LowerChars[k] : k \in 1..26}
            \cup {"?", "-"}
LowerTable ==
    [c \in Chars |->
        IF \E k \in 1..26 : UpperChars[k] = c
        THEN LowerChars[CHOOSE k \in 1..26 : UpperChars[k] = c]
        ELSE c]

tolower(c) == LowerTable[c]

\* the same label in upper case and with a capital first letter, which
\* strcasecmp does not tell from the label
UpperTable ==
    [c \in Chars |->
        IF \E k \in 1..26 : LowerChars[k] = c
        THEN UpperChars[CHOOSE k \in 1..26 : LowerChars[k] = c]
        ELSE c]
UpperCase(a) == [k \in 1..Len(a) |-> UpperTable[a[k]]]
Capitalised(a) == [k \in 1..Len(a) |-> IF k = 1 THEN UpperTable[a[k]] ELSE a[k]]

\* strcmp(a, b) == 0
strcmp_eq(a, b) == a = b

\* strcasecmp(a, b) == 0
strcasecmp_eq(a, b) ==
    /\ Len(a) = Len(b)
    /\ \A k \in 1..Len(a) : tolower(a[k]) = tolower(b[k])

S_broken == <<"b","r","o","k","e","n">>
S_workaround == <<"w","o","r","k","a","r","o","u","n","d">>
S_fixed == <<"f","i","x","e","d">>
S_fixed_ibs == <<"f","i","x","e","d","-","i","b","s">>
S_fixed_ccd == <<"f","i","x","e","d","-","c","c","d">>

cap_cfpc_possible ==
    [num |-> 3, vals |-> <<S_broken, S_workaround, S_fixed>>, help |-> "cfpc-help"]
cap_sbbc_possible ==
    [num |-> 3, vals |-> <<S_broken, S_workaround, S_fixed>>, help |-> "sbbc-help"]
cap_ibs_possible ==
    [num |-> 4, vals |-> <<S_broken, S_workaround, S_fixed_ibs, S_fixed_ccd>>,
     help |-> "ibs-help"]

\* capability_table: name, property type and possible values of each capability
capability_table ==
    [i \in Caps |->
        CASE i = SPAPR_CAP_HTM -> [name |-> "htm", type |-> "bool"]
          [] i = SPAPR_CAP_VSX -> [name |-> "vsx", type |-> "bool"]
          [] i = SPAPR_CAP_DFP -> [name |-> "dfp", type |-> "bool"]
          [] i = SPAPR_CAP_CFPC -> [name |-> "cfpc", type |-> "string"]
          [] i = SPAPR_CAP_SBBC -> [name |-> "sbbc", type |-> "string"]
          [] i = SPAPR_CAP_IBS -> [name |-> "ibs", type |-> "string"]
          [] i = SPAPR_CAP_HPT_MAXPAGESIZE ->
                [name |-> "hpt-max-page-size", type |-> "int"]
          [] i = SPAPR_CAP_NESTED_KVM_HV -> [name |-> "nested-hv", type |-> "bool"]]

possible(i) ==
    CASE i = SPAPR_CAP_CFPC -> cap_cfpc_possible
      [] i = SPAPR_CAP_SBBC -> cap_sbbc_possible
      [] i = SPAPR_CAP_IBS -> cap_ibs_possible

BoolCaps == {i \in Caps : capability_table[i].type = "bool"}
StringCaps == {i \in Caps : capability_table[i].type = "string"}

\* the capabilities that have a migration subsection (SPAPR_CAP_MIG_STATE)
MigCaps == {SPAPR_CAP_HTM, SPAPR_CAP_VSX, SPAPR_CAP_DFP, SPAPR_CAP_CFPC,
            SPAPR_CAP_SBBC, SPAPR_CAP_IBS, SPAPR_CAP_NESTED_KVM_HV}

----------------------------------------------------------------------------
\* Collaborators outside this file: the machine class, the processor
\* compatibility check, the acceleration layer and the processor's page sizes.

\* Ranks of the logical PVRs named by default_caps_with_cpu; a processor
\* configuration is a rank 0..3, the highest compatibility level it meets.
CPU_POWERPC_LOGICAL_2_06 == 1
CPU_POWERPC_LOGICAL_2_06_PLUS == 2
CPU_POWERPC_LOGICAL_2_07 == 3

CompatLevels == 0 .. CPU_POWERPC_LOGICAL_2_07

\* ppc_type_check_compat(cputype, compat_pvr, 0, spapr->max_compat_pvr)
ppc_type_check_compat(compat, compat_pvr) == compat >= compat_pvr

\* smc->default_caps of two machine classes: one that sets a page size
\* ceiling and an older one that leaves it 0
MkCaps(htm, vsx, dfp, cfpc, sbbc, ibs, mps, nested) ==
    [i \in Caps |->
        CASE i = SPAPR_CAP_HTM -> htm
          [] i = SPAPR_CAP_VSX -> vsx
          [] i = SPAPR_CAP_DFP -> dfp
          [] i = SPAPR_CAP_CFPC -> cfpc
          [] i = SPAPR_CAP_SBBC -> sbbc
          [] i = SPAPR_CAP_IBS -> ibs
          [] i = SPAPR_CAP_HPT_MAXPAGESIZE -> mps
          [] i = SPAPR_CAP_NESTED_KVM_HV -> nested]

ZeroCaps == [i \in Caps |-> 0]

smc_default_caps(class) ==
    CASE class = "pseries-3.1" ->
            MkCaps(SPAPR_CAP_OFF, SPAPR_CAP_ON, SPAPR_CAP_ON, SPAPR_CAP_BROKEN,
                   SPAPR_CAP_BROKEN, SPAPR_CAP_BROKEN, 16, SPAPR_CAP_OFF)
      [] class = "pseries-2.11" ->
            MkCaps(SPAPR_CAP_ON, SPAPR_CAP_ON, SPAPR_CAP_ON, SPAPR_CAP_BROKEN,
                   SPAPR_CAP_BROKEN, SPAPR_CAP_BROKEN, 0, SPAPR_CAP_OFF)

\* What the acceleration layer and the host report.  accel is "tcg", "kvm"
\* or "none" (neither tcg_enabled() nor kvm_enabled()).
TcgHost ==
    [accel |-> "tcg", has_cap_htm |-> FALSE, cap_safe_cache |-> 0,
     cap_safe_bounds_check |-> 0, cap_safe_indirect_branch |-> 0,
     has_cap_nested_kvm_hv |-> FALSE, set_cap_nested_kvm_hv |-> 0,
     hpt_needs_host_contiguous_pages |-> FALSE, rampagesize |-> 4096,
     altivec |-> TRUE, vsx |-> TRUE, dfp |-> TRUE]

KvmHost ==
    [accel |-> "kvm", has_cap_htm |-> TRUE, cap_safe_cache |-> 1,
     cap_safe_bounds_check |-> 1, cap_safe_indirect_branch |-> 2,
     has_cap_nested_kvm_hv |-> TRUE, set_cap_nested_kvm_hv |-> 0,
     hpt_needs_host_contiguous_pages |-> TRUE, rampagesize |-> 65536,
     altivec |-> TRUE, vsx |-> TRUE, dfp |-> TRUE]

tcg_enabled(h) == h.accel = "tcg"
kvm_enabled(h) == h.accel = "kvm"

\* uint64 helpers of qemu/host-utils.h
RECURSIVE is_power_of_2(_)
is_power_of_2(x) ==
    IF x <= 0 THEN FALSE
    ELSE IF x = 1 THEN TRUE
    ELSE IF x % 2 = 1 THEN FALSE
    ELSE is_power_of_2(x \div 2)

RECURSIVE ctz64(_)
ctz64(x) ==
    IF x = 0 THEN 64
    ELSE IF x % 2 = 1 THEN 0
    ELSE 1 + ctz64(x \div 2)

----------------------------------------------------------------------------
\* default_caps_with_cpu: the defaults of a machine class for a processor
\* configuration on a host

\* Variant of default_caps_with_cpu: ibs is lowered with htm and cfpc, below
\* 2.07
default_caps_with_cpu_ibs_late(default_caps, compat, h) ==
    LET c1 == IF ~ppc_type_check_compat(compat, CPU_POWERPC_LOGICAL_2_07)
              THEN [default_caps EXCEPT ![SPAPR_CAP_HTM] = SPAPR_CAP_OFF,
                                        ![SPAPR_CAP_CFPC] = SPAPR_CAP_BROKEN,
                                        ![SPAPR_CAP_IBS] = SPAPR_CAP_BROKEN]
              ELSE default_caps
        c2 == IF ~ppc_type_check_compat(compat, CPU_POWERPC_LOGICAL_2_06_PLUS)
              THEN [c1 EXCEPT ![SPAPR_CAP_SBBC] = SPAPR_CAP_BROKEN]
              ELSE c1
        c3 == IF ~ppc_type_check_compat(compat, CPU_POWERPC_LOGICAL_2_06)
              THEN [c2 EXCEPT ![SPAPR_CAP_VSX] = SPAPR_CAP_OFF,
                              ![SPAPR_CAP_DFP] = SPAPR_CAP_OFF]
              ELSE c2
        mps == IF h.hpt_needs_host_contiguous_pages
               THEN ctz64(h.rampagesize)
               ELSE 34
    IN  IF default_caps[SPAPR_CAP_HPT_MAXPAGESIZE] = 0
        THEN [c3 EXCEPT ![SPAPR_CAP_HPT_MAXPAGESIZE] = mps]
        ELSE c3

default_caps_with_cpu(default_caps, compat, h) ==
    LET c1 == IF ~ppc_type_check_compat(compat, CPU_POWERPC_LOGICAL_2_07)
              THEN [default_caps EXCEPT ![SPAPR_CAP_HTM] = SPAPR_CAP_OFF,
                                        ![SPAPR_CAP_CFPC] = SPAPR_CAP_BROKEN]
              ELSE default_caps
        c2 == IF ~ppc_type_check_compat(compat, CPU_POWERPC_LOGICAL_2_06_PLUS)
              THEN [c1 EXCEPT ![SPAPR_CAP_SBBC] = SPAPR_CAP_BROKEN]
              ELSE c1
        c3 == IF ~ppc_type_check_compat(compat, CPU_POWERPC_LOGICAL_2_06)
              THEN [c2 EXCEPT ![SPAPR_CAP_VSX] = SPAPR_CAP_OFF,
                              ![SPAPR_CAP_DFP] = SPAPR_CAP_OFF,
                              ![SPAPR_CAP_IBS] = SPAPR_CAP_BROKEN]
              ELSE c2
        mps == IF h.hpt_needs_host_contiguous_pages
               THEN ctz64(h.rampagesize)
               ELSE 34
    IN  IF default_caps[SPAPR_CAP_HPT_MAXPAGESIZE] = 0
        THEN [c3 EXCEPT ![SPAPR_CAP_HPT_MAXPAGESIZE] = mps]
        ELSE c3

----------------------------------------------------------------------------
\* State

VARIABLES
    class,           \* machine -> its machine class (selects smc->default_caps)
    host,            \* machine -> what its backend and host report
    max_compat_pvr,  \* machine -> processor compatibility rank
    cmd_line_caps,   \* machine -> [Caps -> BOOLEAN]
    eff,             \* machine -> effective capability set
    def,             \* machine -> default capability set
    mig,             \* machine -> migration (incoming/outgoing) capability set
    inited,          \* machine -> spapr_caps_init has run
    applied,         \* machine -> "no", "ok", or "fatal" (spapr_caps_apply)
    apply_log,       \* machine -> what the last spapr_caps_apply reported
    cpus,            \* machine -> the page sizes of its processors, or NoCpu
    stream,          \* the migration stream in flight, or NoStream
    rx,              \* machine -> position in a migration receive
    chk,             \* machine -> what the last migration check computed
    nsets,           \* successful property writes so far
    call             \* the last call whose results its caller kept

vars == <<class, host, max_compat_pvr, cmd_line_caps, eff, def, mig, inited,
          applied, apply_log, cpus, stream, rx, chk, nsets, call>>

\* the machine configurations a behaviour starts from: both machines alike,
\* or an older machine class on another host
Setup1 == [class |-> "pseries-3.1", host |-> TcgHost, compat |-> 3]
Setup2 == [class |-> "pseries-2.11", host |-> KvmHost, compat |-> 0]
MachinePairs ==
    { [m \in Machines |-> IF m = "A" THEN a ELSE b] :
        a \in {Setup1}, b \in {Setup1, Setup2} }

\* no processor has been created yet
NoCpu == {<<0, 0>>}

\* spapr_caps_apply has reported nothing yet
NoApplyLog == [err |-> None, cap |-> None, try |-> <<>>, warns |-> <<>>,
               calls |-> <<>>]

\* a null pointer, as the errp of a caller that ignores errors
NULL == "NULL"

\* no caller has kept the results of a call yet
NoCall == [op |-> None, index |-> 0, arg |-> None, err |-> None, out |-> None]

\* no migration check has run yet
NoChk == [done |-> FALSE, srccaps |-> ZeroCaps, dstcaps |-> ZeroCaps,
          ret |-> 0, log |-> <<>>]

\* Freshly allocated machine objects: every capability field is zero
InitWith(pairs) ==
    /\ \E su \in pairs :
          /\ class = [m \in Machines |-> su[m].class]
          /\ host = [m \in Machines |-> su[m].host]
          /\ max_compat_pvr = [m \in Machines |-> su[m].compat]
    /\ cmd_line_caps = [m \in Machines |-> [i \in Caps |-> FALSE]]
    /\ eff = [m \in Machines |-> ZeroCaps]
    /\ def = [m \in Machines |-> ZeroCaps]
    /\ mig = [m \in Machines |-> ZeroCaps]
    /\ inited = [m \in Machines |-> FALSE]
    /\ applied = [m \in Machines |-> "no"]
    /\ apply_log = [m \in Machines |-> NoApplyLog]
    /\ cpus = [m \in Machines |-> NoCpu]
    /\ stream = NoStream
    /\ rx = [m \in Machines |-> "idle"]
    /\ chk = [m \in Machines |-> NoChk]
    /\ nsets = 0
    /\ call = NoCall

Init == InitWith(MachinePairs)

\* one machine under emulation and one under KVM
InitAll == InitWith({[m \in Machines |-> IF m = "A" THEN Setup1 ELSE Setup2]})

----------------------------------------------------------------------------
\* Property setters

\* what the visitor hands back: an error, or a decoded value
VisitErr == [err |-> TRUE, value |-> None]
Visited(v) == [err |-> FALSE, value |-> v]

S_query == <<"?">>
S_bogus == <<"b","o","g","u","s">>
S_Workaround == <<"W","o","r","k","a","r","o","u","n","d">>
S_FIXED == <<"F","I","X","E","D">>
S_Fixed_CCD == <<"F","i","x","e","d","-","C","C","D">>

BoolInputs == <<VisitErr, Visited(TRUE), Visited(FALSE)>>
StringInputs ==
    <<VisitErr, Visited(S_query), Visited(S_bogus), Visited(S_broken),
      Visited(S_Workaround), Visited(S_FIXED), Visited(S_fixed_ibs),
      Visited(S_Fixed_CCD)>>
SizeInputs ==
    <<VisitErr, Visited(0), Visited(3), Visited(12288), Visited(65537)>>
        \o [k \in 1..(MaxShift + 1) |-> Visited(2 ^ (k - 1))]

\* every label of a capability, in three letter cases
LabelInputs(index) ==
    LET vals == possible(index).vals
    IN  [k \in 1..(3 * Len(vals)) |->
            LET label == vals[((k - 1) \div 3) + 1]
            IN  Visited(CASE k % 3 = 1 -> label
                          [] k % 3 = 2 -> UpperCase(label)
                          [] k % 3 = 0 -> Capitalised(label))]

\* the property writes the machines receive while the migration behaviours
\* are explored: every setter, with accepted and rejected values
PropertyWrites ==
    << [index |-> SPAPR_CAP_HTM, v |-> Visited(TRUE)],
       [index |-> SPAPR_CAP_VSX, v |-> Visited(FALSE)],
       [index |-> SPAPR_CAP_DFP, v |-> Visited(TRUE)],
       [index |-> SPAPR_CAP_DFP, v |-> VisitErr],
       [index |-> SPAPR_CAP_CFPC, v |-> Visited(S_FIXED)],
       [index |-> SPAPR_CAP_CFPC, v |-> Visited(S_query)],
       [index |-> SPAPR_CAP_SBBC, v |-> Visited(S_bogus)],
       [index |-> SPAPR_CAP_IBS, v |-> VisitErr],
       [index |-> SPAPR_CAP_HPT_MAXPAGESIZE, v |-> Visited(16777216)],
       [index |-> SPAPR_CAP_HPT_MAXPAGESIZE, v |-> Visited(12288)],
       [index |-> SPAPR_CAP_HPT_MAXPAGESIZE, v |-> VisitErr],
       [index |-> SPAPR_CAP_NESTED_KVM_HV, v |-> VisitErr] >>

\* the property writes the machines receive where activation is explored as
\* well: levels that some backend rejects
ActivationWrites ==
    << [index |-> SPAPR_CAP_HTM, v |-> Visited(TRUE)],
       [index |-> SPAPR_CAP_CFPC, v |-> Visited(S_FIXED)],
       [index |-> SPAPR_CAP_HPT_MAXPAGESIZE, v |-> Visited(16777216)],
       [index |-> SPAPR_CAP_HPT_MAXPAGESIZE, v |-> Visited(2048)] >>

\* the values written to max-cpu-compat
CompatWrites == {0, CPU_POWERPC_LOGICAL_2_07}

\* A machine takes property writes, init and activation only while it is
\* running its main loop: it has not exited, is not inside a migration load,
\* and is not the stopped source of a stream that is still in flight.
Quiet(m) ==
    /\ applied[m] # "fatal"
    /\ rx[m] \in {"idle", "done"}
    /\ stream.src # m

\* what a setter decides: the error it returns (None when it succeeds) and
\* the level it stores
SetOk(value) == [err |-> None, value |-> value]
SetFail(error) == [err |-> error, value |-> 0]

\* spapr_cap_set_bool
cap_set_bool_result(v) ==
    IF v.err
    THEN SetFail("visit")
    ELSE SetOk(IF v.value THEN SPAPR_CAP_ON ELSE SPAPR_CAP_OFF)

\* Variant of find_possible: the labels are compared with strcmp
RECURSIVE find_possible_cased(_, _, _)
find_possible_cased(p, val, i) ==
    IF i >= p.num THEN -1
    ELSE IF strcmp_eq(val, p.vals[i + 1]) THEN i
    ELSE find_possible_cased(p, val, i + 1)

\* the loop of spapr_cap_set_string: the first i whose label matches, or -1
RECURSIVE find_possible(_, _, _)
find_possible(p, val, i) ==
    IF i >= p.num THEN -1
    ELSE IF strcasecmp_eq(val, p.vals[i + 1]) THEN i
    ELSE find_possible(p, val, i + 1)

\* spapr_cap_set_string
cap_set_string_result(index, v) ==
    IF v.err
    THEN SetFail("visit")
    ELSE IF strcmp_eq(v.value, S_query)
    THEN SetFail(possible(index).help)
    ELSE LET i == find_possible(possible(index), v.value, 0)
         IN  IF i >= 0 THEN SetOk(i) ELSE SetFail("Invalid capability mode")

\* Variant of cap_set_pagesize_result: the power-of-two test is missing
cap_set_pagesize_result_unchecked(v) ==
    IF v.err
    THEN SetFail("visit")
    ELSE SetOk(ctz64(v.value))

\* spapr_cap_set_pagesize
cap_set_pagesize_result(v) ==
    IF v.err
    THEN SetFail("visit")
    ELSE IF ~is_power_of_2(v.value)
    THEN SetFail("must be a power of 2")
    ELSE SetOk(ctz64(v.value))

\* the setter of capability index, by the accessor capability_table gives it
cap_set_result(index, v) ==
    CASE capability_table[index].type = "bool" -> cap_set_bool_result(v)
      [] capability_table[index].type = "string" ->
            cap_set_string_result(index, v)
      [] capability_table[index].type = "int" -> cap_set_pagesize_result(v)

\* the inputs a capability's visitor can hand to its setter
SetInputs(index) ==
    CASE capability_table[index].type = "bool" -> BoolInputs
      [] capability_table[index].type = "string" ->
            StringInputs \o LabelInputs(index)
      [] capability_table[index].type = "int" -> SizeInputs

\* Variant of spapr_cap_set: the setter stores the level in the default set
\* instead of the effective set
spapr_cap_set_writes_def(m, index, v, errp) ==
    /\ Quiet(m)
    /\ LET r == cap_set_result(index, v)
       IN  IF r.err = None
           THEN /\ nsets < MaxSets
                /\ cmd_line_caps' = [cmd_line_caps EXCEPT ![m][index] = TRUE]
                /\ def' = [def EXCEPT ![m][index] = r.value]
                /\ nsets' = nsets + 1
                /\ UNCHANGED eff
           ELSE UNCHANGED <<cmd_line_caps, eff, def, nsets>>
    /\ call' = IF errp = NULL THEN call
               ELSE [op |-> "set", index |-> index, arg |-> v,
                     err |-> cap_set_result(index, v).err, out |-> None]
    /\ UNCHANGED <<class, host, max_compat_pvr, mig, inited, applied,
                   apply_log, cpus, stream, rx, chk>>

\* A property write cap-<name>=v on machine m: on success it marks the
\* capability as set on the command line and stores the level, on error it
\* touches nothing.  The error goes to the caller through errp, unless errp
\* is NULL.
spapr_cap_set(m, index, v, errp) ==
    /\ Quiet(m)
    /\ LET r == cap_set_result(index, v)
       IN  IF r.err = None
           THEN /\ nsets < MaxSets
                /\ cmd_line_caps' = [cmd_line_caps EXCEPT ![m][index] = TRUE]
                /\ eff' = [eff EXCEPT ![m][index] = r.value]
                /\ nsets' = nsets + 1
           ELSE UNCHANGED <<cmd_line_caps, eff, nsets>>
    /\ call' = IF errp = NULL THEN call
               ELSE [op |-> "set", index |-> index, arg |-> v,
                     err |-> cap_set_result(index, v).err, out |-> None]
    /\ UNCHANGED <<class, host, max_compat_pvr, def, mig, inited, applied,
                   apply_log, cpus, stream, rx, chk>>

\* what a getter hands to the visitor
\* spapr_cap_get_bool
cap_get_bool_result(value) == SetOk(value = SPAPR_CAP_ON)

\* spapr_cap_get_string
cap_get_string_result(index, value) ==
    IF value >= possible(index).num
    THEN SetFail("Invalid value")
    ELSE SetOk(possible(index).vals[value + 1])

\* spapr_cap_get_pagesize
cap_get_pagesize_result(val) == SetOk(2 ^ val)

\* the getter of capability index, by the accessor capability_table gives it
cap_get_result(index, value) ==
    CASE capability_table[index].type = "bool" -> cap_get_bool_result(value)
      [] capability_table[index].type = "string" ->
            cap_get_string_result(index, value)
      [] capability_table[index].type = "int" -> cap_get_pagesize_result(value)

\* A property read cap-<name> on machine m
spapr_cap_get(m, index) ==
    /\ Quiet(m)
    /\ LET r == cap_get_result(index, eff[m][index])
       IN  call' = [op |-> "get", index |-> index, arg |-> None,
                    err |-> r.err, out |-> r.value]
    /\ UNCHANGED <<class, host, max_compat_pvr, cmd_line_caps, eff, def, mig,
                   inited, applied, apply_log, cpus, stream, rx, chk, nsets>>

\* the machine's max-cpu-compat property: changes spapr->max_compat_pvr
set_max_cpu_compat(m, compat) ==
    /\ Quiet(m)
    /\ nsets < MaxSets
    /\ compat # max_compat_pvr[m]
    /\ max_compat_pvr' = [max_compat_pvr EXCEPT ![m] = compat]
    /\ nsets' = nsets + 1
    /\ UNCHANGED <<call, class, host, cmd_line_caps, eff, def, mig, inited, applied,
                   apply_log, cpus, stream, rx, chk>>

----------------------------------------------------------------------------
\* spapr_caps_init

MachineDefault(m) ==
    default_caps_with_cpu(smc_default_caps(class[m]), max_compat_pvr[m], host[m])

\* Variant of init_eff: every capability takes its default
init_eff_all(m, default_caps) ==
    [i \in Caps |-> default_caps[i]]

\* Variant of init_eff: the test on cmd_line_caps is inverted
init_eff_inverted(m, default_caps) ==
    [i \in Caps |-> IF cmd_line_caps[m][i] THEN default_caps[i] ELSE eff[m][i]]

\* the loop of spapr_caps_init: the effective set it leaves
init_eff(m, default_caps) ==
    [i \in Caps |-> IF ~cmd_line_caps[m][i] THEN default_caps[i] ELSE eff[m][i]]

\* Variant of spapr_caps_init: it resets the migration set as well
spapr_caps_init_resets_mig(m) ==
    /\ Quiet(m)
    /\ LET default_caps == MachineDefault(m)
       IN  /\ def' = [def EXCEPT ![m] = default_caps]
           /\ eff' = [eff EXCEPT ![m] = init_eff(m, default_caps)]
           /\ mig' = [mig EXCEPT ![m] = default_caps]
    /\ inited' = [inited EXCEPT ![m] = TRUE]
    /\ UNCHANGED <<call, class, host, max_compat_pvr, cmd_line_caps, applied,
                   apply_log, cpus, stream, rx, chk, nsets>>

spapr_caps_init(m) ==
    /\ Quiet(m)
    /\ LET default_caps == MachineDefault(m)
       IN  /\ def' = [def EXCEPT ![m] = default_caps]
           /\ eff' = [eff EXCEPT ![m] = init_eff(m, default_caps)]
    /\ inited' = [inited EXCEPT ![m] = TRUE]
    /\ UNCHANGED <<call, class, host, max_compat_pvr, cmd_line_caps, mig, applied,
                   apply_log, cpus, stream, rx, chk, nsets>>

----------------------------------------------------------------------------
\* Migration: sending side

\* spapr_caps_pre_save: the migration set it leaves
spapr_caps_pre_save(m) == eff[m]

\* Variant of spapr_cap_needed: the comparison with the default is dropped
spapr_cap_needed_if_set(m, cap) ==
    cmd_line_caps[m][cap]

\* spapr_cap_<sname>_needed
spapr_cap_needed(m, cap) ==
    cmd_line_caps[m][cap] /\ (eff[m][cap] # def[m][cap])

\* the subsections written for machine m: one VMSTATE_UINT8(mig.caps[cap])
\* for every capability that has a subsection and needs it
saved_fields(m, saved_mig) ==
    [cap \in {c \in MigCaps : spapr_cap_needed(m, c)} |-> saved_mig[cap]]

\* Saving the machine's state: the pre-save hook, then the needed subsections
spapr_save(m) ==
    /\ inited[m]
    /\ Quiet(m)
    /\ stream = NoStream
    /\ LET saved_mig == spapr_caps_pre_save(m)
       IN  /\ mig' = [mig EXCEPT ![m] = saved_mig]
           /\ stream' = [src |-> m, fields |-> saved_fields(m, saved_mig)]
    /\ UNCHANGED <<call, class, host, max_compat_pvr, cmd_line_caps, eff, def,
                   inited, applied, apply_log, cpus, rx, chk, nsets>>

----------------------------------------------------------------------------
\* Migration: receiving side

\* Variant of pre_load_mig: the migration set is not reset
pre_load_mig_kept(m) == mig[m]

\* spapr_caps_pre_load: the migration set it leaves
pre_load_mig(m) == def[m]

\* Variant of spapr_caps_pre_load: the default set is copied over the
\* effective set instead of the migration set
spapr_caps_pre_load_writes_eff(m) ==
    /\ inited[m]
    /\ applied[m] # "fatal"
    /\ rx[m] \in {"idle", "done"}
    /\ stream # NoStream
    /\ stream.src # m
    /\ eff' = [eff EXCEPT ![m] = def[m]]
    /\ rx' = [rx EXCEPT ![m] = "loading"]
    /\ UNCHANGED <<call, class, host, max_compat_pvr, cmd_line_caps, mig, def,
                   inited, applied, apply_log, cpus, stream, chk,
                   nsets>>

spapr_caps_pre_load(m) ==
    /\ inited[m]
    /\ applied[m] # "fatal"
    /\ rx[m] \in {"idle", "done"}
    /\ stream # NoStream
    /\ stream.src # m
    /\ mig' = [mig EXCEPT ![m] = pre_load_mig(m)]
    /\ rx' = [rx EXCEPT ![m] = "loading"]
    /\ UNCHANGED <<call, class, host, max_compat_pvr, cmd_line_caps, eff, def,
                   inited, applied, apply_log, cpus, stream, chk,
                   nsets>>

\* the subsections present in the stream overwrite their mig.caps[cap]
load_fields(old_mig, fields) ==
    [i \in Caps |-> IF i \in DOMAIN fields THEN fields[i] ELSE old_mig[i]]

spapr_load_subsections(m) ==
    /\ rx[m] = "loading"
    /\ mig' = [mig EXCEPT ![m] = load_fields(mig[m], stream.fields)]
    /\ rx' = [rx EXCEPT ![m] = "loaded"]
    /\ UNCHANGED <<call, class, host, max_compat_pvr, cmd_line_caps, eff, def,
                   inited, applied, apply_log, cpus, stream, chk,
                   nsets>>

\* Variant of post_migration_srccaps: the test on the incoming level is
\* inverted
post_migration_srccaps_inverted(m) ==
    LET recomputed == MachineDefault(m)
    IN  [i \in Caps |-> IF mig[m][i] = def[m][i] THEN mig[m][i]
                        ELSE recomputed[i]]

\* Variant of post_migration_srccaps: the class defaults are taken without
\* the adjustments for the processor
post_migration_srccaps_class(m) ==
    LET recomputed == smc_default_caps(class[m])
    IN  [i \in Caps |-> IF mig[m][i] # def[m][i] THEN mig[m][i]
                        ELSE recomputed[i]]

\* first loop of spapr_caps_post_migration: the source's capabilities
post_migration_srccaps(m) ==
    LET recomputed == MachineDefault(m)
    IN  [i \in Caps |-> IF mig[m][i] # def[m][i] THEN mig[m][i]
                        ELSE recomputed[i]]

Report(level, i, src, dst) ==
    [level |-> level, name |-> capability_table[i].name, src |-> src, dst |-> dst]

\* Variant of post_migration_compare: a warning clears ok as well
post_migration_compare_strict(acc, i, srccaps, dstcaps) ==
    IF srccaps[i] > dstcaps[i]
    THEN [ok |-> FALSE,
          log |-> Append(acc.log, Report("error", i, srccaps[i], dstcaps[i]))]
    ELSE IF srccaps[i] < dstcaps[i]
    THEN [ok |-> FALSE,
          log |-> Append(acc.log, Report("warn", i, srccaps[i], dstcaps[i]))]
    ELSE acc

\* one iteration of the second loop, on the pair (ok, log)
post_migration_compare(acc, i, srccaps, dstcaps) ==
    LET a1 == IF srccaps[i] > dstcaps[i]
              THEN [ok |-> FALSE,
                    log |-> Append(acc.log,
                                   Report("error", i, srccaps[i], dstcaps[i]))]
              ELSE acc
    IN  IF srccaps[i] < dstcaps[i]
        THEN [a1 EXCEPT !.log =
                  Append(a1.log, Report("warn", i, srccaps[i], dstcaps[i]))]
        ELSE a1

\* Variant of post_migration_scan: the loop is left at the first error
RECURSIVE post_migration_scan_break(_, _, _, _)
post_migration_scan_break(acc, i, srccaps, dstcaps) ==
    IF i >= SPAPR_CAP_NUM \/ ~acc.ok THEN acc
    ELSE post_migration_scan_break(
             post_migration_compare(acc, i, srccaps, dstcaps),
             i + 1, srccaps, dstcaps)

\* second loop of spapr_caps_post_migration, from index i on
RECURSIVE post_migration_scan(_, _, _, _)
post_migration_scan(acc, i, srccaps, dstcaps) ==
    IF i >= SPAPR_CAP_NUM THEN acc
    ELSE post_migration_scan(post_migration_compare(acc, i, srccaps, dstcaps),
                             i + 1, srccaps, dstcaps)

\* what spapr_caps_post_migration computes and returns
post_migration_result(m) ==
    LET dstcaps == eff[m]
        srccaps == post_migration_srccaps(m)
        out == post_migration_scan([ok |-> TRUE, log |-> <<>>], 0,
                                   srccaps, dstcaps)
    IN  [done |-> TRUE, srccaps |-> srccaps, dstcaps |-> dstcaps,
         ret |-> IF out.ok THEN 0 ELSE -EINVAL, log |-> out.log]

spapr_caps_post_migration(m) ==
    /\ rx[m] = "loaded"
    /\ chk' = [chk EXCEPT ![m] = post_migration_result(m)]
    /\ rx' = [rx EXCEPT ![m] = "done"]
    /\ stream' = NoStream
    /\ UNCHANGED <<call, class, host, max_compat_pvr, cmd_line_caps, eff, def, mig,
                   inited, applied, apply_log, cpus, nsets>>

----------------------------------------------------------------------------
\* Activation: the per-capability apply functions.  Each returns the error it
\* sets (None when it accepts the level), the warnings it reports and the
\* calls it makes into the acceleration layer, in order.

Accept(calls) == [err |-> None, try |-> <<>>, warns |-> <<>>, calls |-> calls]
Reject(msg, try, calls) ==
    [err |-> msg, try |-> try, warns |-> <<>>, calls |-> calls]

\* Variant of cap_htm_apply: the early return for level 0 is missing
cap_htm_apply_no_return(h, val) ==
    IF tcg_enabled(h)
    THEN Reject("No Transactional Memory support in TCG", <<>>, <<>>)
    ELSE IF kvm_enabled(h)
    THEN IF ~h.has_cap_htm
         THEN Reject("KVM implementation does not support Transactional Memory",
                     <<>>, <<"kvmppc_has_cap_htm">>)
         ELSE Accept(<<"kvmppc_has_cap_htm">>)
    ELSE Accept(<<>>)

cap_htm_apply(h, val) ==
    IF val = 0 THEN Accept(<<>>)
    ELSE IF tcg_enabled(h)
    THEN Reject("No Transactional Memory support in TCG", <<>>, <<>>)
    ELSE IF kvm_enabled(h)
    THEN IF ~h.has_cap_htm
         THEN Reject("KVM implementation does not support Transactional Memory",
                     <<>>, <<"kvmppc_has_cap_htm">>)
         ELSE Accept(<<"kvmppc_has_cap_htm">>)
    ELSE Accept(<<>>)

\* env is what dereferencing first_cpu yields: the first processor's
\* instruction flags, or a fault when no processor exists yet
cap_vsx_apply(env, val) ==
    IF val = 0 THEN Accept(<<>>)
    ELSE IF env.fault THEN Reject("SIGSEGV", <<>>, <<>>)
    ELSE IF ~env.altivec THEN Reject("g_assert", <<>>, <<>>)
    ELSE IF ~env.vsx THEN Reject("VSX support not available", <<>>, <<>>)
    ELSE Accept(<<>>)

cap_dfp_apply(env, val) ==
    IF val = 0 THEN Accept(<<>>)
    ELSE IF env.fault THEN Reject("SIGSEGV", <<>>, <<>>)
    ELSE IF ~env.dfp THEN Reject("DFP support not available", <<>>, <<>>)
    ELSE Accept(<<>>)

\* Variant of cap_safe_cache_apply: the comparison with the level KVM reports
\* is off by one
cap_safe_cache_apply_off_by_one(h, val) ==
    LET kvm_val == h.cap_safe_cache
        calls == <<"kvmppc_get_cap_safe_cache">>
    IN  IF tcg_enabled(h) /\ val # 0
        THEN Reject("safe cache capability level not supported by tcg",
                    <<>>, calls)
        ELSE IF kvm_enabled(h) /\ val > kvm_val + 1
        THEN Reject("safe cache capability level not supported by kvm",
                    cap_cfpc_possible.vals[kvm_val + 1], calls)
        ELSE Accept(calls)

cap_safe_cache_apply(h, val) ==
    LET kvm_val == h.cap_safe_cache
        calls == <<"kvmppc_get_cap_safe_cache">>
    IN  IF tcg_enabled(h) /\ val # 0
        THEN Reject("safe cache capability level not supported by tcg",
                    <<>>, calls)
        ELSE IF kvm_enabled(h) /\ val > kvm_val
        THEN Reject("safe cache capability level not supported by kvm",
                    cap_cfpc_possible.vals[kvm_val + 1], calls)
        ELSE Accept(calls)

\* Variant of cap_safe_bounds_check_apply: under KVM only the host's level is
\* taken, as for ibs
cap_safe_bounds_check_apply_exact(h, val) ==
    LET kvm_val == h.cap_safe_bounds_check
        calls == <<"kvmppc_get_cap_safe_bounds_check">>
    IN  IF tcg_enabled(h) /\ val # 0
        THEN Reject("safe bounds check capability level not supported by tcg",
                    <<>>, calls)
        ELSE IF kvm_enabled(h) /\ val # 0 /\ val # kvm_val
        THEN Reject("safe bounds check capability level not supported by kvm",
                    cap_sbbc_possible.vals[kvm_val + 1], calls)
        ELSE Accept(calls)

\* Variant of cap_safe_bounds_check_apply: the test for TCG is missing
cap_safe_bounds_check_apply_no_tcg(h, val) ==
    LET kvm_val == h.cap_safe_bounds_check
        calls == <<"kvmppc_get_cap_safe_bounds_check">>
    IN  IF kvm_enabled(h) /\ val > kvm_val
        THEN Reject("safe bounds check capability level not supported by kvm",
                    cap_sbbc_possible.vals[kvm_val + 1], calls)
        ELSE Accept(calls)

cap_safe_bounds_check_apply(h, val) ==
    LET kvm_val == h.cap_safe_bounds_check
        calls == <<"kvmppc_get_cap_safe_bounds_check">>
    IN  IF tcg_enabled(h) /\ val # 0
        THEN Reject("safe bounds check capability level not supported by tcg",
                    <<>>, calls)
        ELSE IF kvm_enabled(h) /\ val > kvm_val
        THEN Reject("safe bounds check capability level not supported by kvm",
                    cap_sbbc_possible.vals[kvm_val + 1], calls)
        ELSE Accept(calls)

cap_safe_indirect_branch_apply(h, val) ==
    LET kvm_val == h.cap_safe_indirect_branch
        calls == <<"kvmppc_get_cap_safe_indirect_branch">>
    IN  IF val = SPAPR_CAP_WORKAROUND
        THEN Reject("safe indirect branch capability level workaround not valid",
                    cap_ibs_possible.vals[kvm_val + 1], calls)
        ELSE IF tcg_enabled(h) /\ val # 0
        THEN Reject("safe indirect branch capability level not supported by tcg",
                    <<>>, calls)
        ELSE IF kvm_enabled(h) /\ val # 0 /\ val # kvm_val
        THEN Reject("safe indirect branch capability level not supported by kvm",
                    cap_ibs_possible.vals[kvm_val + 1], calls)
        ELSE Accept(calls)

\* spapr_check_pagesize: TRUE when it sets an error.  pagesize is a power of
\* two, so (1ULL << maxshift) > pagesize is compared on the exponents.
spapr_check_pagesize(h, maxshift, pagesize) ==
    IF ~h.hpt_needs_host_contiguous_pages THEN FALSE
    ELSE maxshift > ctz64(pagesize)

\* Variant of cap_hpt_maxpagesize_apply: the 4kiB minimum is not enforced
cap_hpt_maxpagesize_apply_no_min(h, val) ==
    LET calls == <<"kvmppc_hpt_needs_host_contiguous_pages">>
        warns == IF val < 16
                 THEN <<"Many guests require at least 64kiB hpt-max-page-size">>
                 ELSE <<>>
    IN  IF spapr_check_pagesize(h, val, h.rampagesize)
        THEN [Reject("Can't support guest pages with host pages", <<>>, calls)
                 EXCEPT !.warns = warns]
        ELSE [Accept(calls) EXCEPT !.warns = warns]

cap_hpt_maxpagesize_apply(h, val) ==
    LET calls == <<"kvmppc_hpt_needs_host_contiguous_pages">>
        warns == IF val < 16
                 THEN <<"Many guests require at least 64kiB hpt-max-page-size">>
                 ELSE <<>>
    IN  IF val < 12
        THEN Reject("Require at least 4kiB hpt-max-page-size", <<>>, <<>>)
        ELSE IF spapr_check_pagesize(h, val, h.rampagesize)
        THEN [Reject("Can't support guest pages with host pages", <<>>, calls)
                 EXCEPT !.warns = warns]
        ELSE [Accept(calls) EXCEPT !.warns = warns]

cap_nested_kvm_hv_apply(h, val) ==
    IF val = 0 THEN Accept(<<>>)
    ELSE IF tcg_enabled(h)
    THEN Reject("No Nested KVM-HV support in tcg", <<>>, <<>>)
    ELSE IF kvm_enabled(h)
    THEN IF ~h.has_cap_nested_kvm_hv
         THEN Reject("KVM implementation does not support Nested KVM-HV",
                     <<>>, <<"kvmppc_has_cap_nested_kvm_hv">>)
         ELSE IF h.set_cap_nested_kvm_hv < 0
         THEN Reject("Error enabling cap-nested-hv with KVM", <<>>,
                     <<"kvmppc_has_cap_nested_kvm_hv",
                       "kvmppc_set_cap_nested_kvm_hv">>)
         ELSE Accept(<<"kvmppc_has_cap_nested_kvm_hv",
                       "kvmppc_set_cap_nested_kvm_hv">>)
    ELSE Accept(<<>>)

\* capability_table[i].apply
cap_apply(i, h, env, val) ==
    CASE i = SPAPR_CAP_HTM -> cap_htm_apply(h, val)
      [] i = SPAPR_CAP_VSX -> cap_vsx_apply(env, val)
      [] i = SPAPR_CAP_DFP -> cap_dfp_apply(env, val)
      [] i = SPAPR_CAP_CFPC -> cap_safe_cache_apply(h, val)
      [] i = SPAPR_CAP_SBBC -> cap_safe_bounds_check_apply(h, val)
      [] i = SPAPR_CAP_IBS -> cap_safe_indirect_branch_apply(h, val)
      [] i = SPAPR_CAP_HPT_MAXPAGESIZE -> cap_hpt_maxpagesize_apply(h, val)
      [] i = SPAPR_CAP_NESTED_KVM_HV -> cap_nested_kvm_hv_apply(h, val)

\* Variant of caps_apply_scan: the loop goes on after an error and keeps the
\* last one
RECURSIVE caps_apply_scan_on(_, _, _, _, _)
caps_apply_scan_on(acc, i, h, env, caps) ==
    IF i >= SPAPR_CAP_NUM THEN acc
    ELSE LET r == cap_apply(i, h, env, caps[i])
             a1 == [acc EXCEPT !.warns = acc.warns \o r.warns,
                               !.calls = acc.calls \o r.calls]
         IN  IF r.err # None
             THEN caps_apply_scan_on(
                      [a1 EXCEPT !.err = r.err, !.try = r.try,
                                 !.cap = capability_table[i].name],
                      i + 1, h, env, caps)
             ELSE caps_apply_scan_on(a1, i + 1, h, env, caps)

\* the loop of spapr_caps_apply from index i on: with &error_fatal the first
\* error ends the process, so the later capabilities are not applied
RECURSIVE caps_apply_scan(_, _, _, _, _)
caps_apply_scan(acc, i, h, env, caps) ==
    IF i >= SPAPR_CAP_NUM THEN acc
    ELSE LET r == cap_apply(i, h, env, caps[i])
             a1 == [acc EXCEPT !.warns = acc.warns \o r.warns,
                               !.calls = acc.calls \o r.calls]
         IN  IF r.err # None
             THEN [a1 EXCEPT !.err = r.err, !.try = r.try,
                             !.cap = capability_table[i].name]
             ELSE caps_apply_scan(a1, i + 1, h, env, caps)

\* the instruction flags of the processor model, read through first_cpu
CpuEnv(h) ==
    [fault |-> FALSE, altivec |-> h.altivec, vsx |-> h.vsx, dfp |-> h.dfp]

\* Reading through first_cpu when no processor exists is a NULL dereference:
\* the read faults, or yields whatever is mapped there.
FirstCpuEnvs(m) ==
    IF cpus[m] # NoCpu
    THEN {CpuEnv(host[m])}
    ELSE {[fault |-> TRUE, altivec |-> FALSE, vsx |-> FALSE, dfp |-> FALSE]}
         \cup {[fault |-> FALSE, altivec |-> a, vsx |-> v, dfp |-> d] :
                 a \in BOOLEAN, v \in BOOLEAN, d \in BOOLEAN}

spapr_caps_apply(m) ==
    /\ inited[m]
    /\ Quiet(m)
    /\ \E env \in FirstCpuEnvs(m) :
          LET out == caps_apply_scan(NoApplyLog, 0, host[m], env, eff[m])
          IN  /\ apply_log' = [apply_log EXCEPT ![m] = out]
              /\ applied' = [applied EXCEPT ![m] =
                                IF out.err = None THEN "ok" ELSE "fatal"]
    /\ UNCHANGED <<call, class, host, max_compat_pvr, cmd_line_caps, eff, def, mig,
                   inited, cpus, stream, rx, chk, nsets>>

----------------------------------------------------------------------------
\* Per-processor activation

\* the (segment shift, page shift) pairs a new processor supports
CpuPageSizes ==
    {<<12, 12>>, <<12, 16>>, <<12, 24>>, <<16, 16>>, <<16, 24>>, <<24, 24>>,
     <<34, 34>>}

\* Variant of spapr_pagesize_cb: 16M pages are allowed before the maximum is
\* looked at
spapr_pagesize_cb_16m_first(maxshift, seg_pshift, pshift) ==
    IF pshift = 24 THEN TRUE
    ELSE IF pshift > maxshift THEN FALSE
    ELSE IF pshift # seg_pshift THEN FALSE
    ELSE TRUE

\* spapr_pagesize_cb(opaque, seg_pshift, pshift), opaque pointing at maxshift
spapr_pagesize_cb(maxshift, seg_pshift, pshift) ==
    IF pshift > maxshift THEN FALSE
    ELSE IF (pshift # seg_pshift) /\ (pshift # 24) THEN FALSE
    ELSE TRUE

\* ppc_hash64_filter_pagesizes(cpu, cb, opaque): keeps the pairs cb allows
ppc_hash64_filter_pagesizes(sps, maxshift) ==
    {ps \in sps : spapr_pagesize_cb(maxshift, ps[1], ps[2])}

cap_hpt_maxpagesize_cpu_apply(sps, val) ==
    ppc_hash64_filter_pagesizes(sps, val)

\* spapr_caps_cpu_apply on a processor that is being created: only
\* hpt-max-page-size has a cpu_apply.  Every processor of a machine starts
\* from the same page sizes, so cpus[m] keeps those of the latest one.
spapr_caps_cpu_apply(m) ==
    /\ inited[m]
    /\ Quiet(m)
    /\ cpus' = [cpus EXCEPT ![m] =
                  cap_hpt_maxpagesize_cpu_apply(
                      CpuPageSizes, eff[m][SPAPR_CAP_HPT_MAXPAGESIZE])]
    /\ UNCHANGED <<call, class, host, max_compat_pvr, cmd_line_caps, eff, def, mig,
                   inited, applied, apply_log, stream, rx, chk, nsets>>

----------------------------------------------------------------------------
\* Property writes, construction and migration between the two machines
Next ==
    \/ \E m \in Machines, k \in 1..Len(PropertyWrites) :
          spapr_cap_set(m, PropertyWrites[k].index, PropertyWrites[k].v, NULL)
    \/ \E m \in Machines, compat \in CompatWrites : set_max_cpu_compat(m, compat)
    \/ \E m \in Machines : spapr_caps_init(m)
    \/ \E m \in Machines : spapr_save(m)
    \/ \E m \in Machines : spapr_caps_pre_load(m)
    \/ \E m \in Machines : spapr_load_subsections(m)
    \/ \E m \in Machines : spapr_caps_post_migration(m)

Spec == Init /\ [][Next]_vars

\* Every operation, activation and processor creation included, with fewer
\* property writes
NextAll ==
    \/ \E m \in Machines, k \in 1..Len(ActivationWrites) :
          /\ spapr_cap_set(m, ActivationWrites[k].index, ActivationWrites[k].v, NULL)
          /\ nsets' <= MaxSetsAll
    \/ \E m \in Machines, compat \in CompatWrites :
          /\ set_max_cpu_compat(m, compat)
          /\ nsets' <= MaxSetsAll
    \/ \E m \in Machines : spapr_caps_init(m)
    \/ \E m \in Machines : spapr_caps_apply(m)
    \/ \E m \in Machines : spapr_caps_cpu_apply(m)
    \/ \E m \in Machines : spapr_save(m)
    \/ \E m \in Machines : spapr_caps_pre_load(m)
    \/ \E m \in Machines : spapr_load_subsections(m)
    \/ \E m \in Machines : spapr_caps_post_migration(m)

SpecAll == InitAll /\ [][NextAll]_vars

\* The property accessors of one machine, called with every input and an
\* errp that keeps the error, before and after spapr_caps_init
InitAcc == InitWith({[m \in Machines |-> Setup1]})

NextAcc ==
    \/ \E index \in Caps :
          LET inputs == SetInputs(index)
          IN  \E k \in 1..Len(inputs) :
                  /\ \/ nsets < MaxSetsAll
                     \/ cap_set_result(index, inputs[k]).err # None
                  /\ spapr_cap_set("A", index, inputs[k], "errp")
    \/ \E index \in Caps : spapr_cap_get("A", index)
    \/ spapr_caps_init("A")

SpecAcc == InitAcc /\ [][NextAcc]_vars

----------------------------------------------------------------------------
\* The functions of the file called on their own, each with every argument of
\* a bounded set; the caller keeps the arguments and the result in call.

\* what the backend and the host can report: the acceleration mode, whether
\* KVM has the boolean capabilities, the level KVM reports for the three
\* workaround capabilities, whether enabling nested KVM-HV succeeds, and the
\* host page size
HostProfiles ==
    { [accel |-> a, has_cap_htm |-> b, cap_safe_cache |-> IF c > 2 THEN 2 ELSE c,
       cap_safe_bounds_check |-> IF c > 2 THEN 2 ELSE c,
       cap_safe_indirect_branch |-> c,
       has_cap_nested_kvm_hv |-> b, set_cap_nested_kvm_hv |-> e,
       hpt_needs_host_contiguous_pages |-> g, rampagesize |-> r,
       altivec |-> TRUE, vsx |-> TRUE, dfp |-> TRUE] :
        a \in {"tcg", "kvm", "none"}, b \in BOOLEAN, c \in 0..3,
        e \in {0, -1}, g \in BOOLEAN, r \in {4096, 65536} }

\* what reading through first_cpu can yield
CpuEnvs ==
    {[fault |-> TRUE, altivec |-> FALSE, vsx |-> FALSE, dfp |-> FALSE]}
    \cup {[fault |-> FALSE, altivec |-> a, vsx |-> v, dfp |-> d] :
            a \in BOOLEAN, v \in BOOLEAN, d \in BOOLEAN}

\* the levels handed to the apply function of capability i
ApplyLevels(i) ==
    IF i = SPAPR_CAP_HPT_MAXPAGESIZE THEN 0..MaxShift ELSE 0..MaxLevel

\* capability_table[i].apply(spapr, val, errp)
cap_apply_call(i, h, env, val) ==
    /\ LET r == cap_apply(i, h, env, val)
       IN  call' = [op |-> "apply", index |-> i,
                    arg |-> [h |-> h, env |-> env, val |-> val],
                    err |-> r.err, out |-> r]
    /\ UNCHANGED <<class, host, max_compat_pvr, cmd_line_caps, eff, def, mig,
                   inited, applied, apply_log, cpus, stream, rx, chk, nsets>>

\* the effective sets handed to the loop of spapr_caps_apply
ApplySets ==
    { MkCaps(htm, vsx, dfp, cfpc, sbbc, ibs, mps, nested) :
        htm \in 0..1, vsx \in 0..1, dfp \in 0..1, cfpc \in 0..2, sbbc \in 0..2,
        ibs \in 0..3, mps \in {11, 16}, nested \in 0..1 }

\* the hosts the loop is run on: every acceleration mode and host page size
ApplyHosts ==
    { h \in HostProfiles :
        /\ h.has_cap_htm
        /\ h.cap_safe_indirect_branch = 2
        /\ h.set_cap_nested_kvm_hv = 0 }

\* the loop of spapr_caps_apply on an effective set
caps_apply_call(h, env, caps) ==
    /\ LET r == caps_apply_scan(NoApplyLog, 0, h, env, caps)
       IN  call' = [op |-> "apply_all", index |-> 0,
                    arg |-> [h |-> h, env |-> env, caps |-> caps],
                    err |-> r.err, out |-> r]
    /\ UNCHANGED <<class, host, max_compat_pvr, cmd_line_caps, eff, def, mig,
                   inited, applied, apply_log, cpus, stream, rx, chk, nsets>>

\* one call in a behaviour
NextApply ==
    \/ /\ call = NoCall
       /\ \E i \in Caps, h \in HostProfiles :
             \E val \in ApplyLevels(i),
                env \in IF i \in {SPAPR_CAP_VSX, SPAPR_CAP_DFP}
                        THEN CpuEnvs ELSE {CpuEnv(h)} :
                 cap_apply_call(i, h, env, val)
    \/ /\ call = NoCall
       /\ \E h \in ApplyHosts, caps \in ApplySets :
             \E env \in {e \in CpuEnvs :
                            e.fault \/ (e.altivec /\ e.vsx = e.dfp)} :
                 caps_apply_call(h, env, caps)

SpecApply == InitAcc /\ [][NextApply]_vars

\* spapr_pagesize_cb(&maxshift, seg_pshift, pshift); the caller,
\* ppc_hash64_filter_pagesizes, hands it page shifts that are at least the
\* segment shift
pagesize_cb_call(maxshift, seg_pshift, pshift) ==
    /\ pshift >= seg_pshift
    /\ call' = [op |-> "pagesize_cb", index |-> SPAPR_CAP_HPT_MAXPAGESIZE,
                arg |-> [maxshift |-> maxshift, seg_pshift |-> seg_pshift,
                         pshift |-> pshift],
                err |-> None,
                out |-> spapr_pagesize_cb(maxshift, seg_pshift, pshift)]
    /\ UNCHANGED <<class, host, max_compat_pvr, cmd_line_caps, eff, def, mig,
                   inited, applied, apply_log, cpus, stream, rx, chk, nsets>>

NextPagesize ==
    /\ call = NoCall
    /\ \E maxshift \in 0..MaxShift, seg_pshift \in 0..MaxShift,
          pshift \in 0..MaxShift :
           pagesize_cb_call(maxshift, seg_pshift, pshift)

SpecPagesize == InitAcc /\ [][NextPagesize]_vars

\* the baselines a machine class can have: each capability at its weakest
\* or at a higher level, the page size ceiling set or left 0
Baselines ==
    { MkCaps(htm, vsx, dfp, cfpc, sbbc, ibs, mps, nested) :
        htm \in 0..1, vsx \in 0..1, dfp \in 0..1, cfpc \in {0, 2},
        sbbc \in {0, 1}, ibs \in {0, 3}, mps \in {0, 16}, nested \in 0..1 }

\* default_caps_with_cpu(spapr, cputype) for a baseline smc->default_caps
default_caps_call(default_caps, compat, h) ==
    /\ call' = [op |-> "default_caps", index |-> 0,
                arg |-> [default_caps |-> default_caps, compat |-> compat,
                         h |-> h],
                err |-> None,
                out |-> default_caps_with_cpu(default_caps, compat, h)]
    /\ UNCHANGED <<class, host, max_compat_pvr, cmd_line_caps, eff, def, mig,
                   inited, applied, apply_log, cpus, stream, rx, chk, nsets>>

NextDefault ==
    /\ call = NoCall
    /\ \E default_caps \in Baselines, compat \in CompatLevels,
          h \in {TcgHost, KvmHost, [KvmHost EXCEPT !.rampagesize = 4096]} :
           default_caps_call(default_caps, compat, h)

SpecDefault == InitAcc /\ [][NextDefault]_vars

----------------------------------------------------------------------------
\* Properties of the compatibility check (spapr_caps_post_migration)

\* C1: a finished check whose peer level exceeds the local effective level at
\* some index has returned -EINVAL, and its log holds one error report for
\* every such index, naming the capability and both levels: the scan does
\* not stop at the first violation.
C1_AllViolationsReported ==
    \A m \in Machines :
        chk[m].done =>
            \A i \in Caps :
                chk[m].srccaps[i] > chk[m].dstcaps[i] =>
                    /\ chk[m].ret = -EINVAL
                    /\ \E k \in 1..Len(chk[m].log) :
                           chk[m].log[k] =
                               Report("error", i, chk[m].srccaps[i],
                                      chk[m].dstcaps[i])

\* a check that found two violations and reported both
C1_Witness ==
    \E m \in Machines :
        /\ rx[m] = "done"
        /\ chk[m].done
        /\ chk[m].ret = -EINVAL
        /\ \E i, j \in Caps :
               /\ i < j
               /\ chk[m].srccaps[i] > chk[m].dstcaps[i]
               /\ chk[m].srccaps[j] > chk[m].dstcaps[j]
               /\ \E k, l \in 1..Len(chk[m].log) :
                      /\ k < l
                      /\ chk[m].log[k].level = "error"
                      /\ chk[m].log[k].name = capability_table[i].name
                      /\ chk[m].log[l].level = "error"
                      /\ chk[m].log[l].name = capability_table[j].name

\* C2: a finished check in which no peer level exceeds the local level has
\* returned 0, and its log holds one warning for every index where the peer
\* level is below the local level; the check returns 0 exactly when no peer
\* level exceeds the local level, whatever warnings it gave.
C2_WarningsDoNotFail ==
    \A m \in Machines :
        chk[m].done =>
            /\ (chk[m].ret = 0) <=>
                   (\A i \in Caps : ~(chk[m].srccaps[i] > chk[m].dstcaps[i]))
            /\ chk[m].ret \in {0, -EINVAL}
            /\ \A i \in Caps :
                   chk[m].srccaps[i] < chk[m].dstcaps[i] =>
                       \E k \in 1..Len(chk[m].log) :
                           chk[m].log[k] =
                               Report("warn", i, chk[m].srccaps[i],
                                      chk[m].dstcaps[i])

\* a check that only warned and returned 0
C2_Witness ==
    \E m \in Machines :
        /\ rx[m] = "done"
        /\ chk[m].done
        /\ chk[m].ret = 0
        /\ \E i \in Caps : chk[m].srccaps[i] < chk[m].dstcaps[i]
        /\ \A i \in Caps : chk[m].srccaps[i] <= chk[m].dstcaps[i]
        /\ Len(chk[m].log) >= 1
        /\ \A k \in 1..Len(chk[m].log) : chk[m].log[k].level = "warn"

\* C3, as stated: when the incoming set equals the default set at every
\* index, the check returns 0 and reports nothing, whatever the local
\* effective set is.
C3_AsStated ==
    \A m \in Machines :
        (rx[m] = "loaded" /\ mig[m] = def[m]) =>
            /\ post_migration_result(m).ret = 0
            /\ post_migration_result(m).log = <<>>

\* C3, amended: when the incoming set equals the default set at every index,
\* the check returns 0 and reports nothing exactly when the local effective
\* set equals the default set recomputed by the check at every index.
C3_DefaultIncoming ==
    \A m \in Machines :
        (rx[m] = "loaded" /\ mig[m] = def[m]) =>
            ((/\ post_migration_result(m).ret = 0
              /\ post_migration_result(m).log = <<>>)
             <=> eff[m] = MachineDefault(m))

\* a silent successful check of an all-default incoming set on a machine whose
\* processor adjusts the class defaults
C3_Witness ==
    \E m \in Machines :
        /\ rx[m] = "done"
        /\ chk[m].done
        /\ chk[m].ret = 0
        /\ chk[m].log = <<>>
        /\ mig[m] = def[m]
        /\ eff[m] = def[m]
        /\ chk[m].dstcaps = eff[m]
        /\ def[m] # smc_default_caps(class[m])

\* C4, as stated: when both machines computed the same default set, a
\* successful check on the destination means that the source's effective
\* level is at most the destination's effective level at every index.
C4_AsStated ==
    \A d \in Machines :
        (/\ rx[d] = "loaded"
         /\ def[stream.src] = def[d]
         /\ post_migration_result(d).ret = 0) =>
            \A i \in Caps : eff[stream.src][i] <= eff[d][i]

----------------------------------------------------------------------------
\* Properties of the stream and of the receiving side

\* C5: a stream in flight holds a capability's field only if the capability
\* was explicitly set on the sender and its effective level differs from its
\* default level, and the field holds the sender's effective level.
C5_SentOnlyIfNeeded ==
    stream # NoStream =>
        \A c \in DOMAIN stream.fields :
            /\ cmd_line_caps[stream.src][c]
            /\ eff[stream.src][c] # def[stream.src][c]
            /\ stream.fields[c] = eff[stream.src][c]

\* a stream that carries one capability and leaves out another one which was
\* explicitly set to its default level
C5_Witness ==
    /\ stream # NoStream
    /\ stream.fields # <<>>
    /\ \E c \in MigCaps :
           /\ cmd_line_caps[stream.src][c]
           /\ eff[stream.src][c] = def[stream.src][c]
           /\ c \notin DOMAIN stream.fields

\* C6: once pre-load and the field loads have run, the incoming level is the
\* stream's value for every capability present in the stream and the local
\* default level for every capability absent from it.
C6_IncomingAfterLoad ==
    \A d \in Machines :
        rx[d] = "loaded" =>
            \A i \in Caps :
                mig[d][i] = IF i \in DOMAIN stream.fields
                            THEN stream.fields[i]
                            ELSE def[d][i]

\* a machine that saved a non-default level earlier, as the other machine's
\* finished check shows, and has now loaded a stream without that capability
C6_Witness ==
    \E d \in Machines :
        /\ rx[d] = "loaded"
        /\ chk[Other(d)].done
        /\ def[Other(d)] = def[d]
        /\ \E i \in MigCaps :
               /\ i \notin DOMAIN stream.fields
               /\ chk[Other(d)].srccaps[i] # def[d][i]
               /\ eff[d][i] # def[d][i]
               /\ mig[d][i] = def[d][i]

\* C7: a step of the receive transaction (pre-load, field loads, the check)
\* leaves the machine's effective, default and explicitly-set state
\* unchanged.
C7_ReceiveKeepsConfiguration ==
    [][\A m \in Machines :
           rx'[m] # rx[m] =>
               /\ eff'[m] = eff[m]
               /\ def'[m] = def[m]
               /\ cmd_line_caps'[m] = cmd_line_caps[m]]_vars

\* a failed check on a machine with an explicit level that differs from the
\* default: the configuration is still in place
C7_Witness ==
    \E m \in Machines :
        /\ rx[m] = "done"
        /\ chk[m].ret = -EINVAL
        /\ mig[m] # def[m]
        /\ \E i \in Caps : cmd_line_caps[m][i] /\ eff[m][i] # def[m][i]

\* C8, as stated: the incoming set of a machine changes only in a pre-load
\* or field-load step of that machine.
C8_AsStated ==
    [][\A m \in Machines :
           mig'[m] # mig[m] =>
               \/ rx[m] \in {"idle", "done"} /\ rx'[m] = "loading"
               \/ rx[m] = "loading" /\ rx'[m] = "loaded"]_vars

\* C8, amended: the incoming set of a machine changes only in a pre-load or
\* field-load step of that machine, or in its pre-save hook, which copies the
\* effective set into it.
C8_IncomingWriters ==
    [][\A m \in Machines :
           mig'[m] # mig[m] =>
               \/ rx[m] \in {"idle", "done"} /\ rx'[m] = "loading"
               \/ rx[m] = "loading" /\ rx'[m] = "loaded"
               \/ /\ stream = NoStream
                  /\ stream'.src = m
                  /\ mig'[m] = eff[m]]_vars

\* a machine whose incoming set was written by a receive and which has been
\* activated and has created a processor since
C8_Witness ==
    \E m \in Machines :
        /\ rx[m] = "done"
        /\ applied[m] = "ok"
        /\ cpus[m] # NoCpu
        /\ mig[m] # ZeroCaps
        /\ mig[m] # eff[m]

----------------------------------------------------------------------------
\* Properties of the default set

\* C9: on an initialised machine, every capability that was not explicitly
\* set has its effective level equal to its default level.
C9_UnsetFollowDefault ==
    \A m \in Machines :
        inited[m] =>
            \A i \in Caps :
                ~cmd_line_caps[m][i] => eff[m][i] = def[m][i]

\* an initialised and activated machine with one explicit non-default level
\* and a non-zero default level in place for a capability that was not set
C9_Witness ==
    \E m \in Machines :
        /\ inited[m]
        /\ applied[m] = "ok"
        /\ def[m] # ZeroCaps
        /\ \E i \in Caps : cmd_line_caps[m][i] /\ eff[m][i] # def[m][i]
        /\ \E i \in Caps : ~cmd_line_caps[m][i] /\ eff[m][i] # 0

\* C10: the default set of a machine changes only in a step of
\* spapr_caps_init on that machine.
C10_DefaultWrittenByInit ==
    [][\A m \in Machines : def'[m] # def[m] => spapr_caps_init(m)]_vars

\* a machine whose default set survived a property write, activation,
\* processor creation and a receive
C10_Witness ==
    \E m \in Machines :
        /\ inited[m]
        /\ def[m] = MachineDefault(m)
        /\ def[m] # ZeroCaps
        /\ \E i \in Caps : cmd_line_caps[m][i]
        /\ applied[m] = "ok"
        /\ cpus[m] # NoCpu
        /\ rx[m] = "done"

----------------------------------------------------------------------------
\* Properties of the property accessors

\* the byte counts that are powers of two, listed rather than computed
PowersOfTwo == {2 ^ k : k \in 0..(MaxShift + 1)}

\* the inputs the claims call rejected: the visitor fails, a size that is not
\* a power of two, the query value, a string that is no label in any case
RejectedInput(index, v) ==
    \/ v.err
    \/ /\ ~v.err
       /\ capability_table[index].type = "int"
       /\ v.value \notin PowersOfTwo
    \/ /\ ~v.err
       /\ capability_table[index].type = "string"
       /\ \/ v.value = <<"?">>
          \/ \A k \in 1..Len(possible(index).vals) :
                 UpperCase(v.value) # UpperCase(possible(index).vals[k])

\* C11: a set whose input the visitor fails to decode, a page size that is
\* not a power of two, the query value "?" and an unrecognised label each
\* hand an error to the caller and leave the effective set and the
\* explicitly-set flags unchanged; for "?" the error is the help text.
C11_RejectedSetChangesNothing ==
    [][(call' # call /\ call'.op = "set"
            /\ RejectedInput(call'.index, call'.arg)) =>
           LET index == call'.index
               v == call'.arg
           IN  /\ call'.err # None
               /\ eff' = eff
               /\ cmd_line_caps' = cmd_line_caps
               /\ (~v.err /\ capability_table[index].type = "string"
                     /\ v.value = <<"?">>) =>
                      call'.err = possible(index).help]_vars

\* the query value handed to a capability that had been set to "fixed": the
\* caller holds the help text and the level is still in place
C11_Witness ==
    /\ call.op = "set"
    /\ call.index = SPAPR_CAP_CFPC
    /\ ~call.arg.err
    /\ call.arg.value = <<"?">>
    /\ call.err = cap_cfpc_possible.help
    /\ cmd_line_caps["A"][SPAPR_CAP_CFPC]
    /\ eff["A"][SPAPR_CAP_CFPC] = 2

\* C12, as stated: a set of hpt-max-page-size to a power of two below 4 KiB
\* hands an error to the caller, and a page shift that was set is never
\* below 12.
C12_AsStated ==
    /\ (/\ call.op = "set"
        /\ call.index = SPAPR_CAP_HPT_MAXPAGESIZE
        /\ ~call.arg.err
        /\ call.arg.value \in {2 ^ k : k \in 0..11}) => call.err # None
    /\ \A m \in Machines :
           cmd_line_caps[m][SPAPR_CAP_HPT_MAXPAGESIZE] =>
               eff[m][SPAPR_CAP_HPT_MAXPAGESIZE] >= 12

\* C12, amended: a set of hpt-max-page-size to 2 KiB succeeds and stores
\* page shift 11; the minimum is enforced by activation, which ends fatally on
\* a machine whose effective page shift is below 12.
C12_MinimumAtActivation ==
    [][\A m \in Machines :
           /\ spapr_cap_set(m, SPAPR_CAP_HPT_MAXPAGESIZE, Visited(2048), NULL) =>
                  /\ cmd_line_caps'[m][SPAPR_CAP_HPT_MAXPAGESIZE]
                  /\ eff'[m][SPAPR_CAP_HPT_MAXPAGESIZE] = 11
           /\ (/\ applied'[m] # applied[m]
               /\ eff[m][SPAPR_CAP_HPT_MAXPAGESIZE] < 12) =>
                  applied'[m] = "fatal"]_vars

\* activation ended on the page shift 11 that a set had stored
C12_Witness ==
    \E m \in Machines :
        /\ cmd_line_caps[m][SPAPR_CAP_HPT_MAXPAGESIZE]
        /\ eff[m][SPAPR_CAP_HPT_MAXPAGESIZE] = 11
        /\ applied[m] = "fatal"
        /\ apply_log[m].cap = "hpt-max-page-size"
        /\ apply_log[m].err = "Require at least 4kiB hpt-max-page-size"

----------------------------------------------------------------------------
\* Properties of the apply functions

\* the capabilities whose apply function asks KVM for the level it reports
WorkaroundCaps == {SPAPR_CAP_CFPC, SPAPR_CAP_SBBC, SPAPR_CAP_IBS}

\* the one call with which such an apply function asks
CeilingQuery(i) ==
    CASE i = SPAPR_CAP_CFPC -> <<"kvmppc_get_cap_safe_cache">>
      [] i = SPAPR_CAP_SBBC -> <<"kvmppc_get_cap_safe_bounds_check">>
      [] i = SPAPR_CAP_IBS -> <<"kvmppc_get_cap_safe_indirect_branch">>

\* the level the host reports for such a capability
Ceiling(h, i) ==
    CASE i = SPAPR_CAP_CFPC -> h.cap_safe_cache
      [] i = SPAPR_CAP_SBBC -> h.cap_safe_bounds_check
      [] i = SPAPR_CAP_IBS -> h.cap_safe_indirect_branch

\* C13, as stated: on every backend the apply function of every capability
\* accepts level 0 without an error and without a call into the acceleration
\* layer.
C13_AsStated ==
    (call.op = "apply" /\ call.arg.val = 0) =>
        /\ call.err = None
        /\ call.out.calls = <<>>

\* C13, amended: on every backend the apply function of every capability
\* other than hpt-max-page-size accepts level 0 without an error or a warning;
\* htm, vsx, dfp and nested-hv make no call into the acceleration layer, cfpc,
\* sbbc and ibs make the one call that reads the level the host reports;
\* hpt-max-page-size rejects level 0, which is below its minimum.
C13_WeakestLevelAccepted ==
    (call.op = "apply" /\ call.arg.val = 0) =>
        IF call.index = SPAPR_CAP_HPT_MAXPAGESIZE
        THEN /\ call.err = "Require at least 4kiB hpt-max-page-size"
             /\ call.out.calls = <<>>
        ELSE /\ call.err = None
             /\ call.out.warns = <<>>
             /\ call.out.calls = IF call.index \in WorkaroundCaps
                                 THEN CeilingQuery(call.index)
                                 ELSE <<>>

\* htm at level 0 accepted under TCG, where level 1 is rejected
C13_Witness ==
    /\ call.op = "apply"
    /\ call.index = SPAPR_CAP_HTM
    /\ call.arg.val = 0
    /\ call.arg.h.accel = "tcg"
    /\ call.err = None
    /\ cap_htm_apply(call.arg.h, 1).err # None

\* C14: under TCG the apply functions of htm, cfpc, sbbc, ibs and nested-hv
\* reject every level other than 0, and the loop of spapr_caps_apply ends
\* with an error on every effective set that has one of them above 0.
C14_TcgRejectsNonWeakest ==
    /\ (/\ call.op = "apply"
        /\ call.arg.h.accel = "tcg"
        /\ call.index \in {SPAPR_CAP_HTM, SPAPR_CAP_CFPC, SPAPR_CAP_SBBC,
                           SPAPR_CAP_IBS, SPAPR_CAP_NESTED_KVM_HV}
        /\ call.arg.val # 0) => call.err # None
    /\ (/\ call.op = "apply_all"
        /\ call.arg.h.accel = "tcg"
        /\ \E i \in {SPAPR_CAP_HTM, SPAPR_CAP_CFPC, SPAPR_CAP_SBBC,
                     SPAPR_CAP_IBS, SPAPR_CAP_NESTED_KVM_HV} :
               call.arg.caps[i] # 0) => call.err # None

\* the loop under TCG ended on sbbc, the only capability above 0
C14_Witness ==
    /\ call.op = "apply_all"
    /\ call.arg.h.accel = "tcg"
    /\ \A i \in Caps \ {SPAPR_CAP_SBBC, SPAPR_CAP_HPT_MAXPAGESIZE} :
           call.arg.caps[i] = 0
    /\ call.arg.caps[SPAPR_CAP_SBBC] = 1
    /\ call.arg.caps[SPAPR_CAP_HPT_MAXPAGESIZE] = 16
    /\ call.err # None
    /\ call.out.cap = "sbbc"

\* C15: under KVM the apply functions of cfpc, sbbc and ibs reject a level
\* above the one the host reports and name the host's level in the error;
\* those of htm and nested-hv reject level 1 when the host lacks the
\* capability.
C15_KvmCeiling ==
    (call.op = "apply" /\ call.arg.h.accel = "kvm") =>
        /\ (/\ call.index \in WorkaroundCaps
            /\ call.arg.val > Ceiling(call.arg.h, call.index)) =>
               /\ call.err # None
               /\ call.out.try =
                      possible(call.index).vals[
                          Ceiling(call.arg.h, call.index) + 1]
        /\ (/\ call.index = SPAPR_CAP_HTM
            /\ call.arg.val = 1
            /\ ~call.arg.h.has_cap_htm) => call.err # None
        /\ (/\ call.index = SPAPR_CAP_NESTED_KVM_HV
            /\ call.arg.val = 1
            /\ ~call.arg.h.has_cap_nested_kvm_hv) => call.err # None

\* cfpc "fixed" asked of a host that reports "workaround"
C15_Witness ==
    /\ call.op = "apply"
    /\ call.arg.h.accel = "kvm"
    /\ call.index = SPAPR_CAP_CFPC
    /\ call.arg.val = 2
    /\ call.arg.h.cap_safe_cache = 1
    /\ call.err # None
    /\ call.out.try = <<"w","o","r","k","a","r","o","u","n","d">>

----------------------------------------------------------------------------
\* Properties of the activation of a machine

\* what the run shows when a read through a null first_cpu goes wrong
FirstCpuFaults == {"SIGSEGV", "g_assert"}

----------------------------------------------------------------------------
\* Properties of the accessors taken together

\* the places of the labels of a capability that v spells in some letter case
LabelPlaces(index, v) ==
    {i \in 1..Len(possible(index).vals) :
        UpperCase(v) = UpperCase(possible(index).vals[i])}

\* C17: a set of a label of a string capability, in any letter case, succeeds
\* and stores the place of that label in the table, and one place only; a set
\* of 2^k on the page size capability succeeds and stores k; a get that
\* follows a successful set returns the label as the table spells it, and
\* 2^k.
C17_SetThenGet ==
    [][/\ (call' # call /\ call'.op = "set" /\ ~call'.arg.err) =>
              LET index == call'.index
                  v == call'.arg.value
              IN  /\ (index \in StringCaps /\ LabelPlaces(index, v) # {}) =>
                         /\ call'.err = None
                         /\ \A i \in LabelPlaces(index, v) :
                                eff'["A"][index] = i - 1
                  /\ (index = SPAPR_CAP_HPT_MAXPAGESIZE /\ v \in PowersOfTwo) =>
                         /\ call'.err = None
                         /\ 2 ^ eff'["A"][index] = v
       /\ (call.op = "set" /\ call.err = None /\ call'.op = "get"
               /\ call'.index = call.index) =>
              LET index == call.index
                  v == call.arg.value
              IN  /\ call'.err = None
                  /\ index \in StringCaps =>
                         \E i \in LabelPlaces(index, v) :
                             call'.out = possible(index).vals[i]
                  /\ index = SPAPR_CAP_HPT_MAXPAGESIZE => call'.out = v]_vars

\* ibs was set from a label not spelt as the table spells it, and the get
\* after it returned the table's spelling
C17_Witness ==
    /\ call.op = "get"
    /\ call.index = SPAPR_CAP_IBS
    /\ call.out = possible(SPAPR_CAP_IBS).vals[4]
    /\ cmd_line_caps["A"][SPAPR_CAP_IBS]
    /\ eff["A"][SPAPR_CAP_IBS] = 3

----------------------------------------------------------------------------
\* Properties of the page size filter

\* C18: for a segment shift s, a page shift p >= s and a maximum m,
\* spapr_pagesize_cb allows the pair exactly when p <= m and p is s or 24; a
\* page above the maximum is denied even when it is 16M, and a page that
\* differs from its segment is denied unless it is 16M.
C18_PagesizeFilter ==
    (call.op = "pagesize_cb") =>
        LET m == call.arg.maxshift
            s == call.arg.seg_pshift
            p == call.arg.pshift
        IN  /\ call.out <=> (p <= m /\ (p = s \/ p = 24))
            /\ p > m => ~call.out
            /\ (p # s /\ p # 24) => ~call.out

\* a 16M page in a 4k segment, denied under a 64k maximum
C18_Witness ==
    /\ call.op = "pagesize_cb"
    /\ call.arg = [maxshift |-> 16, seg_pshift |-> 12, pshift |-> 24]
    /\ ~call.out

----------------------------------------------------------------------------
\* Properties of the defaults

\* the compatibility level below which a capability's default is lowered
Threshold(i) ==
    CASE i \in {SPAPR_CAP_HTM, SPAPR_CAP_CFPC} -> CPU_POWERPC_LOGICAL_2_07
      [] i = SPAPR_CAP_SBBC -> CPU_POWERPC_LOGICAL_2_06_PLUS
      [] i \in {SPAPR_CAP_VSX, SPAPR_CAP_DFP, SPAPR_CAP_IBS} ->
            CPU_POWERPC_LOGICAL_2_06
      [] OTHER -> 0

\* C19: default_caps_with_cpu lowers htm and cfpc to 0 below 2.07, sbbc below
\* 2.06+, and vsx, dfp and ibs below 2.06; a capability whose level is
\* reached keeps the class's default, so that every default but that of
\* hpt-max-page-size is the class's or 0 and never above the class's.
C19_DefaultsByCompat ==
    (call.op = "default_caps") =>
        \A i \in Caps \ {SPAPR_CAP_HPT_MAXPAGESIZE} :
            /\ call.out[i] = IF call.arg.compat < Threshold(i)
                             THEN 0
                             ELSE call.arg.default_caps[i]
            /\ call.out[i] <= call.arg.default_caps[i]

\* a 2.06 processor under a class with everything on: htm, cfpc and sbbc
\* are lowered, vsx, dfp and ibs are kept
C19_Witness ==
    /\ call.op = "default_caps"
    /\ call.arg.compat = CPU_POWERPC_LOGICAL_2_06
    /\ call.arg.default_caps = MkCaps(1, 1, 1, 2, 1, 3, 16, 1)
    /\ call.out = MkCaps(0, 1, 1, 0, 0, 3, 16, 1)

----------------------------------------------------------------------------
\* Properties of explicit settings

\* C20: a capability once set stays in cmd_line_caps, and its effective level
\* is written by nothing but a later successful set: spapr_caps_init,
\* activation, save and receive leave it, and a set made before
\* spapr_caps_init is not replaced by the default.
C20_ExplicitSettingsStick ==
    [][\A m \in Machines, i \in Caps :
           cmd_line_caps[m][i] =>
               /\ cmd_line_caps'[m][i]
               /\ (~inited[m] /\ inited'[m]) => eff'[m][i] = eff[m][i]
               /\ eff'[m][i] # eff[m][i] =>
                      /\ nsets' = nsets + 1
                      /\ UNCHANGED <<class, host, max_compat_pvr, def, mig,
                                     inited, applied, apply_log, cpus, stream,
                                     rx, chk>>
                      /\ \E k \in 1..Len(ActivationWrites) :
                             /\ ActivationWrites[k].index = i
                             /\ cap_set_result(i, ActivationWrites[k].v) =
                                    SetOk(eff'[m][i])]_vars

\* a page size set to 16M that differs from the default after spapr_caps_init,
\* an accepted activation, a save and a receive
C20_Witness ==
    \E m \in Machines :
        /\ cmd_line_caps[m][SPAPR_CAP_HPT_MAXPAGESIZE]
        /\ eff[m][SPAPR_CAP_HPT_MAXPAGESIZE] = 24
        /\ inited[m]
        /\ def[m][SPAPR_CAP_HPT_MAXPAGESIZE] # 24
        /\ applied[m] = "ok"
        /\ stream # NoStream
        /\ rx[m] = "done"

----------------------------------------------------------------------------
\* Properties of the check against the incoming stream

\* C21: when the default spapr_caps_post_migration recomputes is the default
\* spapr_caps_init stored, the source's capabilities it reconstructs are the
\* incoming set at every index.
C21_SrccapsIsIncoming ==
    [][\A m \in Machines :
           (rx[m] = "loaded" /\ rx'[m] = "done"
                /\ MachineDefault(m) = def[m]) =>
               \A i \in Caps : chk'[m].srccaps[i] = mig[m][i]]_vars

\* a check whose incoming set differs from the stored default at one index
\* and agrees at another, the recomputed default being the stored one
C21_Witness ==
    \E m \in Machines :
        /\ rx[m] = "done"
        /\ chk[m].done
        /\ inited[m]
        /\ MachineDefault(m) = def[m]
        /\ \E i \in Caps : mig[m][i] # def[m][i]
        /\ \E i \in Caps : mig[m][i] = def[m][i]
        /\ chk[m].srccaps = mig[m]

\* C22, as stated: when the source and the destination hold the same default
\* set, the same explicitly-set flags and the same effective set, whatever
\* capabilities were set on both, the check that follows pre-save, the
\* transfer of the needed fields, pre-load and the load of the fields returns
\* 0 and reports nothing.
C22_AsStated ==
    \A d \in Machines :
        (/\ rx[d] = "loaded"
         /\ def[stream.src] = def[d]
         /\ cmd_line_caps[stream.src] = cmd_line_caps[d]
         /\ eff[stream.src] = eff[d]
         /\ MachineDefault(d) = def[d]
         /\ stream.fields = saved_fields(stream.src, eff[stream.src])) =>
            /\ post_migration_result(d).ret = 0
            /\ post_migration_result(d).log = <<>>

----------------------------------------------------------------------------
\* Properties of the apply functions over the levels of a capability

\* the verdict of the apply function of capability i for another level, on
\* the host and processor of the recorded call
AcceptsLevel(i, level) ==
    cap_apply(i, call.arg.h, call.arg.env, level).err = None

\* C23, as stated: on a fixed host, a string or page-size capability whose
\* apply function accepts a level has every lower level accepted too.
C23_AsStated ==
    (/\ call.op = "apply"
     /\ call.index \in StringCaps \cup {SPAPR_CAP_HPT_MAXPAGESIZE}
     /\ call.err = None) =>
        \A level \in 0..(call.arg.val - 1) : AcceptsLevel(call.index, level)

\* C23, amended: on a fixed host, cfpc and sbbc have every level below an
\* accepted one accepted; hpt-max-page-size has every level from 12 up to an
\* accepted one accepted and every level below 12 rejected; an accepted level
\* of ibs is never workaround, has level 0 accepted as well, and under KVM is
\* 0 or the level the host reports.
C23_LowerLevelsAccepted ==
    (call.op = "apply" /\ call.err = None) =>
        /\ call.index \in {SPAPR_CAP_CFPC, SPAPR_CAP_SBBC} =>
               \A level \in 0..(call.arg.val - 1) :
                   AcceptsLevel(call.index, level)
        /\ call.index = SPAPR_CAP_HPT_MAXPAGESIZE =>
               /\ call.arg.val >= 12
               /\ \A level \in 12..(call.arg.val - 1) :
                      AcceptsLevel(call.index, level)
               /\ \A level \in 0..11 : ~AcceptsLevel(call.index, level)
        /\ call.index = SPAPR_CAP_IBS =>
               /\ call.arg.val # SPAPR_CAP_WORKAROUND
               /\ AcceptsLevel(call.index, 0)
               /\ (call.arg.h.accel = "kvm" /\ call.arg.val # 0) =>
                      call.arg.val = call.arg.h.cap_safe_indirect_branch

\* ibs accepted at fixed-ccd on a KVM host that reports it, where fixed-ibs
\* and workaround are not
C23_Witness ==
    /\ call.op = "apply"
    /\ call.index = SPAPR_CAP_IBS
    /\ call.arg.h.accel = "kvm"
    /\ call.arg.val = 3
    /\ call.err = None
    /\ ~AcceptsLevel(SPAPR_CAP_IBS, 2)
    /\ ~AcceptsLevel(SPAPR_CAP_IBS, SPAPR_CAP_WORKAROUND)

====
